---------------------------- MODULE Spec2Model ----------------------------
(***************************************************************************)
(* Model of the storage value codec of package state (src/state/storage.go)*)
(* encodeStorage / decodeStorage, together with the parts of the rlp and   *)
(* common packages the codec calls.                                        *)
(*                                                                         *)
(* Representation.  A byte string is a sequence over 0..255.  A fixed      *)
(* width unsigned integer of w bits is its big-endian byte array of w/8    *)
(* bytes (so that 64-bit values keep their width); a *big.Int is a sign    *)
(* bit and a magnitude without leading zero bytes, as in math/big.  Every  *)
(* value is a record [bytes, bit]: a hash, address, string or unsigned     *)
(* integer is its bytes, a bool is its bit, a big integer is its magnitude *)
(* and its sign bit.  A Go interface value is a record [type, v, ext,      *)
(* extRet]: the dynamic type's name as reflect prints it, the value (for a *)
(* pointer form, the pointee), whether the dynamic type has the extension  *)
(* method, and what that method would return.                              *)
(***************************************************************************)
EXTENDS Integers, Sequences, FiniteSets, TLC

VARIABLES pc, val, enc, data, dst, out, dec

vars == <<pc, val, enc, data, dst, out, dec>>

-----------------------------------------------------------------------------
(* Bounds of the explored inputs *)

\* longest low-order tail of a hash / address that is drawn freely
MaxTailLen == 2
\* longest freely drawn string
MaxStrLen == 2
\* longest freely drawn magnitude of a number, in bytes
MaxNumLen == 2
\* longest freely drawn raw slot content handed to decodeStorage
MaxDataLen == 2

-----------------------------------------------------------------------------
(* Byte strings *)

HashLength == 32
AddressLength == 20

SeqsUpTo(S, n) == UNION {[1..k -> S] : k \in 0..n}

Repeat(b, n) == [i \in 1..n |-> b]

\* bs[i:] of Go, i zero-based
Drop(bs, i) == SubSeq(bs, i + 1, Len(bs))

AllZero(bs) == \A i \in 1..Len(bs) : bs[i] = 0

RECURSIVE TrimLeft(_)
\* the loop of encodeBytesTrimmed / the byte count of putint: leading zero bytes removed
TrimLeft(bs) ==
    IF Len(bs) = 0 THEN <<>>
    ELSE IF bs[1] # 0 THEN bs
    ELSE TrimLeft(Tail(bs))

\* big-endian magnitude m widened (left-padded with zeros) to n bytes
PadLeft(m, n) == Repeat(0, n - Len(m)) \o m

RECURSIVE NatBytes(_)
\* minimal big-endian bytes of a natural number
NatBytes(n) == IF n = 0 THEN <<>> ELSE NatBytes(n \div 256) \o <<n % 256>>

-----------------------------------------------------------------------------
(* Values *)

\* a hash, an address, a string, or an unsigned integer as its big-endian array
Bytes(b) == [bytes |-> b, bit |-> FALSE]

\* a bool
Bool(t) == [bytes |-> <<>>, bit |-> t]

\* a big integer of the given sign and magnitude
Big(neg, abs) == [bytes |-> abs, bit |-> neg]

-----------------------------------------------------------------------------
(* Types *)

UintTypes == {"uint", "uint8", "uint16", "uint32", "uint64"}

\* width in bytes of each unsigned type; uint is 64 bits wide on the build modelled
UintBytes(t) ==
    CASE t = "uint8" -> 1
      [] t = "uint16" -> 2
      [] t = "uint32" -> 4
      [] t = "uint64" -> 8
      [] t = "uint" -> 8

\* the types encodeStorage accepts both by value and by pointer
ValueTypes == {"thor.Bytes32", "thor.Address", "string", "bool"} \cup UintTypes

Ptr(t) == "*" \o t

PointerTypes == {Ptr(t) : t \in ValueTypes} \cup {"*big.Int"}

BuiltinTypes == ValueTypes \cup PointerTypes

\* the type a pointer type points to
Elem(t) == CHOOSE e \in ValueTypes \cup {"big.Int"} : Ptr(e) = t

\* the base type of a built-in type, value or pointer form
Base(t) == IF t \in PointerTypes THEN Elem(t) ELSE t

\* types outside the built-in set without the extension methods
ForeignTypes == {"big.Int", "int", "[]uint8", "*int"}

\* types outside the built-in set that have the extension methods; customUint
\* is defined as uint64, customHash as thor.Bytes32
ExtensionTypes == {"state.customValue", "state.customUint", "*state.customHash"}

\* the dynamic type of an untyped nil interface value: there is none
NilType == "<nil>"

-----------------------------------------------------------------------------
(* Results of a call *)

\* the nil error
NoErr == "nil"

\* a call that returned (bytes, err)
Ret(bytes, err) == [bytes |-> bytes, err |-> err, panic |-> FALSE]

\* a call that did not return: a run-time panic
Panicked == [bytes |-> <<>>, err |-> NoErr, panic |-> TRUE]

-----------------------------------------------------------------------------
(* rlp.EncodeToBytes, by the type of its argument *)

\* header of a string of the given size: short form below 56 bytes, else the
\* length of the length followed by the big-endian length
rlpStringHeader(size) ==
    IF size < 56 THEN <<128 + size>>
    ELSE <<183 + Len(NatBytes(size))>> \o NatBytes(size)

\* a byte slice or string: one byte below 0x80 is its own encoding
rlpEncodeBytes(b) ==
    IF Len(b) = 1 /\ b[1] <= 127 THEN Ret(b, NoErr)
    ELSE Ret(rlpStringHeader(Len(b)) \o b, NoErr)

\* writeUint, given the bytes m that putint writes for the integer
uintOfBytes(m) ==
    IF m = <<>> THEN Ret(<<128>>, NoErr)
    ELSE IF Len(m) = 1 /\ m[1] < 128 THEN Ret(m, NoErr)
    ELSE Ret(<<128 + Len(m)>> \o m, NoErr)

\* an unsigned integer, given as its 8-byte big-endian array
rlpEncodeUint(i) == uintOfBytes(TrimLeft(i))

\* a bool behind a pointer
rlpEncodeBool(b) == IF b THEN Ret(<<1>>, NoErr) ELSE Ret(<<128>>, NoErr)

\* a *big.Int: negative numbers are refused, positive ones are their magnitude
rlpEncodeBigInt(i) ==
    IF i.bit /\ i.bytes # <<>> THEN Ret(<<>>, "rlp: cannot encode negative *big.Int")
    ELSE IF i.bytes = <<>> THEN Ret(<<128>>, NoErr)
    ELSE rlpEncodeBytes(i.bytes)

-----------------------------------------------------------------------------
(* encodeStorage *)

encodeUint(i) ==
    IF AllZero(i) THEN Ret(<<>>, NoErr)
    ELSE rlpEncodeUint(i)

\* the end of encodeBytesTrimmed, given trimmed
encodeTrimmed(trimmed) ==
    IF Len(trimmed) = 0 THEN Ret(<<>>, NoErr)
    ELSE rlpEncodeBytes(trimmed)

\* encodeBytesTrimmed without the loop that skips the leading zero bytes
encodeBytesUntrimmed(bs) == encodeTrimmed(bs)

encodeBytesTrimmed(bs) == encodeTrimmed(TrimLeft(bs))

encodeString(str) ==
    IF str = <<>> THEN Ret(<<>>, NoErr)
    ELSE rlpEncodeBytes(str)

\* encodeBool without the test for false
encodeBoolNoElision(b) == rlpEncodeBool(b)

encodeBool(b) ==
    IF ~b THEN Ret(<<>>, NoErr)
    ELSE rlpEncodeBool(b)

\* (*big.Int).Sign
Sign(i) == IF i.bytes = <<>> THEN 0 ELSE IF i.bit THEN -1 ELSE 1

\* the *big.Int case of encodeStorage
encodeBigInt(v) ==
    IF Sign(v) = 0 THEN Ret(<<>>, NoErr)
    ELSE rlpEncodeBigInt(v)

\* reflect.TypeOf(val).String(): TypeOf of an untyped nil is a nil Type, and
\* the call of String on it panics
typeString(t) == IF t = NilType THEN Panicked ELSE Ret(<<>>, t)

\* the statement after the type switch of encodeStorage
encodeUnsupportedOf(s) ==
    IF s.panic THEN Panicked
    ELSE Ret(<<>>, "encode storage value: type " \o s.err)

encodeUnsupported(t) == encodeUnsupportedOf(typeString(t))

\* encodeStorage whose pointer cases of the unsigned integers encode the
\* pointee in its own width instead of widening it to uint64
encodeStorageNarrowPointers(x) ==
    CASE x.type \in {"thor.Bytes32", "*thor.Bytes32"} -> encodeBytesTrimmed(x.v.bytes)
      [] x.type \in {"thor.Address", "*thor.Address"} -> encodeBytesTrimmed(x.v.bytes)
      [] x.type \in {"string", "*string"} -> encodeString(x.v.bytes)
      [] x.type \in UintTypes -> encodeUint(PadLeft(x.v.bytes, 8))
      [] x.type \in {Ptr(t) : t \in UintTypes} -> encodeString(x.v.bytes)
      [] x.type \in {"bool", "*bool"} -> encodeBool(x.v.bit)
      [] x.type = "*big.Int" -> encodeBigInt(x.v)
      [] OTHER -> encodeUnsupported(x.type)

\* the type switch matches the dynamic type exactly: a defined type with a
\* built-in underlying type, or a type with an Encode method, matches no case
encodeStorage(x) ==
    CASE x.type \in {"thor.Bytes32", "*thor.Bytes32"} -> encodeBytesTrimmed(x.v.bytes)
      [] x.type \in {"thor.Address", "*thor.Address"} -> encodeBytesTrimmed(x.v.bytes)
      [] x.type \in {"string", "*string"} -> encodeString(x.v.bytes)
      [] x.type \in UintTypes \cup {Ptr(t) : t \in UintTypes}
            -> encodeUint(PadLeft(x.v.bytes, 8))
      [] x.type \in {"bool", "*bool"} -> encodeBool(x.v.bit)
      [] x.type = "*big.Int" -> encodeBigInt(x.v)
      [] OTHER -> encodeUnsupported(x.type)

-----------------------------------------------------------------------------
(* The rlp reader.  Sizes are natural numbers; a size of four or more      *)
(* significant bytes is kept as Huge, which exceeds every input modelled.  *)

Huge == 16777216

RECURSIVE NatOf(_)
NatOf(m) == IF Len(m) = 0 THEN 0 ELSE NatOf(SubSeq(m, 1, Len(m) - 1)) * 256 + m[Len(m)]

\* the number a big-endian byte string denotes
BytesNat(m) == IF Len(TrimLeft(m)) > 3 THEN Huge ELSE NatOf(TrimLeft(m))

\* rlp.readSize, given the number s the first slen bytes of b denote
readSizeOf(b, s) ==
    IF s < 56 \/ b[1] = 0 THEN [size |-> 0, err |-> "rlp: non-canonical size information"]
    ELSE [size |-> s, err |-> NoErr]

\* rlp.readSize
readSize(b, slen) ==
    IF slen > Len(b) THEN [size |-> 0, err |-> "unexpected EOF"]
    ELSE readSizeOf(b, BytesNat(SubSeq(b, 1, slen)))

KindFail(e) == [k |-> "none", ts |-> 0, cs |-> 0, err |-> e]

\* the end of rlp.readKind: values larger than the input are refused
kindFit(buf, k, ts, cs) ==
    IF cs > Len(buf) - ts THEN KindFail("rlp: value size exceeds available input length")
    ELSE [k |-> k, ts |-> ts, cs |-> cs, err |-> NoErr]

\* the long forms of rlp.readKind, given the result r of readSize
kindLong(buf, k, n, r) ==
    IF r.err # NoErr THEN KindFail(r.err) ELSE kindFit(buf, k, n + 1, r.size)

\* rlp.readKind on a non-empty buffer whose first byte is b
kindOf(buf, b) ==
    IF b < 128 THEN kindFit(buf, "Byte", 0, 1)
    ELSE IF b < 184 THEN
         IF b - 128 = 1 /\ Len(buf) > 1 /\ buf[2] < 128
         THEN KindFail("rlp: non-canonical size information")
         ELSE kindFit(buf, "String", 1, b - 128)
    ELSE IF b < 192 THEN kindLong(buf, "String", b - 183, readSize(Drop(buf, 1), b - 183))
    ELSE IF b < 248 THEN kindFit(buf, "List", 1, b - 192)
    ELSE kindLong(buf, "List", b - 247, readSize(Drop(buf, 1), b - 247))

\* rlp.readKind on a buffer: the kind, the tag size and the content size
readKind(buf) ==
    IF Len(buf) = 0 THEN KindFail("unexpected EOF") ELSE kindOf(buf, buf[1])

\* rlp.Split, given the result r of readKind
splitOf(b, r) ==
    IF r.err # NoErr THEN [k |-> "none", content |-> <<>>, rest |-> b, err |-> r.err]
    ELSE [k |-> r.k, content |-> SubSeq(b, r.ts + 1, r.ts + r.cs),
          rest |-> Drop(b, r.ts + r.cs), err |-> NoErr]

\* rlp.Split: the content of the first value and what follows it
rlpSplit(b) == splitOf(b, readKind(b))

\* (*Stream).readUint on the input left: the bytes read, as a magnitude
streamReadUint(in, size) ==
    IF size = 0 THEN [m |-> <<>>, rest |-> in, err |-> NoErr]
    ELSE IF size > Len(in)
    THEN [m |-> <<>>, rest |-> in, err |-> "rlp: value size exceeds available input length"]
    ELSE IF size > 1 /\ in[1] = 0
    THEN [m |-> <<>>, rest |-> Drop(in, size), err |-> "rlp: non-canonical size information"]
    ELSE [m |-> SubSeq(in, 1, size), rest |-> Drop(in, size), err |-> NoErr]

HeadFail(e, rest) == [kind |-> "none", size |-> 0, byteval |-> 0, rest |-> rest, err |-> e]

\* the check of (*Stream).Kind at top level: the value must fit the input left
headFit(k, size, bv, rest) ==
    IF size > Len(rest) THEN HeadFail("rlp: value size exceeds available input length", rest)
    ELSE [kind |-> k, size |-> size, byteval |-> bv, rest |-> rest, err |-> NoErr]

\* the long forms of (*Stream).readKind, given the result r of readUint
headLong(k, r) ==
    IF r.err # NoErr THEN HeadFail(r.err, r.rest)
    ELSE IF BytesNat(r.m) < 56 THEN HeadFail("rlp: non-canonical size information", r.rest)
    ELSE headFit(k, BytesNat(r.m), 0, r.rest)

\* (*Stream).readKind on input whose first byte is b
headOf(in, b) ==
    IF b < 128 THEN headFit("Byte", 0, b, Drop(in, 1))
    ELSE IF b < 184 THEN headFit("String", b - 128, 0, Drop(in, 1))
    ELSE IF b < 192 THEN headLong("String", streamReadUint(Drop(in, 1), b - 183))
    ELSE IF b < 248 THEN headFit("List", b - 192, 0, Drop(in, 1))
    ELSE headLong("List", streamReadUint(Drop(in, 1), b - 247))

\* (*Stream).Kind at top level of a stream limited to the input: the kind and
\* size of the next value, and the input left after its header
streamKind(in) ==
    IF Len(in) = 0 THEN HeadFail("EOF", in) ELSE headOf(in, in[1])

UintFail(e, rest) == [m |-> <<>>, rest |-> rest, err |-> e]

\* the String case of (*Stream).uint, given the result r of readUint
uintOfString(size, r) ==
    IF r.err = "rlp: non-canonical size information"
    THEN UintFail("rlp: non-canonical integer (leading zero bytes)", r.rest)
    ELSE IF r.err # NoErr THEN UintFail(r.err, r.rest)
    ELSE IF size > 0 /\ BytesNat(r.m) < 128
    THEN UintFail("rlp: non-canonical size information", r.rest)
    ELSE [m |-> r.m, rest |-> r.rest, err |-> NoErr]

\* (*Stream).uint, given the header h that Kind returned
uintOf(h, maxbytes) ==
    IF h.err # NoErr THEN UintFail(h.err, h.rest)
    ELSE IF h.kind = "Byte" THEN
         IF h.byteval = 0 THEN UintFail("rlp: non-canonical integer (leading zero bytes)", h.rest)
         ELSE [m |-> <<h.byteval>>, rest |-> h.rest, err |-> NoErr]
    ELSE IF h.kind = "String" THEN
         IF h.size > maxbytes THEN UintFail("rlp: uint overflow", h.rest)
         ELSE uintOfString(h.size, streamReadUint(h.rest, h.size))
    ELSE UintFail("rlp: expected String or Byte", h.rest)

\* (*Stream).uint: an unsigned integer of at most maxbytes bytes, as a magnitude
streamUint(in, maxbytes) == uintOf(streamKind(in), maxbytes)

BytesFail(e, rest) == [b |-> <<>>, rest |-> rest, err |-> e]

\* (*Stream).Bytes, given the header h that Kind returned
bytesOf(h) ==
    IF h.err # NoErr THEN BytesFail(h.err, h.rest)
    ELSE IF h.kind = "Byte" THEN [b |-> <<h.byteval>>, rest |-> h.rest, err |-> NoErr]
    ELSE IF h.kind = "String" THEN
         IF h.size = 1 /\ h.rest[1] < 128
         THEN BytesFail("rlp: non-canonical size information", h.rest)
         ELSE [b |-> SubSeq(h.rest, 1, h.size), rest |-> Drop(h.rest, h.size), err |-> NoErr]
    ELSE BytesFail("rlp: expected String or Byte", h.rest)

\* (*Stream).Bytes: a byte string
streamBytes(in) == bytesOf(streamKind(in))

-----------------------------------------------------------------------------
(* rlp.DecodeBytes, by the type of its destination.  A decoder returns the *)
(* value it stores; DecodeBytes then refuses input left over, after the    *)
(* destination has been written.                                           *)

\* decodeString, given the result r of Bytes
stringOf(r) == [v |-> Bytes(r.b), rest |-> r.rest, err |-> r.err]

\* decoding into *string
rlpDecodeString(in) == stringOf(streamBytes(in))

\* decodeUint, given the result r of uint: the value in w bytes
uintValueOf(r, w) == [v |-> Bytes(PadLeft(r.m, w)), rest |-> r.rest, err |-> r.err]

\* decoding into a pointer to an unsigned integer of w bytes
rlpDecodeUint(in, w) == uintValueOf(streamUint(in, w), w)

\* Bool taking every non-zero integer for true
boolOfLax(r) ==
    IF r.err # NoErr THEN [v |-> Bool(FALSE), rest |-> r.rest, err |-> r.err]
    ELSE [v |-> Bool(BytesNat(r.m) # 0), rest |-> r.rest, err |-> NoErr]

\* (*Stream).Bool, given the result r of uint(8): 0 and 1 are false and true
boolOf(r) ==
    IF r.err # NoErr THEN [v |-> Bool(FALSE), rest |-> r.rest, err |-> r.err]
    ELSE IF BytesNat(r.m) = 0 THEN [v |-> Bool(FALSE), rest |-> r.rest, err |-> NoErr]
    ELSE IF BytesNat(r.m) = 1 THEN [v |-> Bool(TRUE), rest |-> r.rest, err |-> NoErr]
    ELSE [v |-> Bool(FALSE), rest |-> r.rest, err |-> "rlp: invalid boolean value"]

\* decoding into *bool
rlpDecodeBool(in) == boolOf(streamUint(in, 1))

\* decodeBigInt, given the result r of Bytes: a magnitude without leading
\* zero bytes
bigIntOf(r) ==
    IF r.err # NoErr THEN [v |-> Big(FALSE, <<>>), rest |-> r.rest, err |-> r.err]
    ELSE IF Len(r.b) > 0 /\ r.b[1] = 0
    THEN [v |-> Big(FALSE, <<>>), rest |-> r.rest,
          err |-> "rlp: non-canonical integer (leading zero bytes)"]
    ELSE [v |-> Big(FALSE, r.b), rest |-> r.rest, err |-> NoErr]

\* decoding into *big.Int
rlpDecodeBigInt(in) == bigIntOf(streamBytes(in))

\* rlp.DecodeBytes(data, v) given the decoder's result r and the old value
rlpDecodeBytes(r, old) ==
    IF r.err # NoErr THEN [v |-> old, err |-> r.err]
    ELSE IF Len(r.rest) > 0
    THEN [v |-> r.v, err |-> "rlp: input contains more than one value"]
    ELSE [v |-> r.v, err |-> NoErr]

-----------------------------------------------------------------------------
(* decodeStorage *)

\* what a call leaves: the destination's value, the error, whether it
\* panicked, and whether the rlp parser was run on the input
DRet(v, err, parsed) == [v |-> v, err |-> err, panic |-> FALSE, parsed |-> parsed]

DPanicked(v) == [v |-> v, err |-> NoErr, panic |-> TRUE, parsed |-> FALSE]

\* the bytes (*common.Hash).SetBytes copies: b cropped from the left to n bytes
Cropped(b, n) == IF Len(b) > n THEN Drop(b, Len(b) - n) ELSE b

\* copy(h[n-len(c):], c)
CopyLow(h, c, n) == SubSeq(h, 1, n - Len(c)) \o c

\* (*common.Hash).SetBytes and (*common.Address).SetBytes
SetBytes(h, b, n) == CopyLow(h, Cropped(b, n), n)

\* the non-empty path of the *thor.Bytes32 and *thor.Address cases, given the
\* result sp of rlp.Split
fixedOf(sp, old, n) ==
    IF sp.err # NoErr THEN DRet(old, sp.err, TRUE)
    ELSE DRet(Bytes(SetBytes(old.bytes, sp.content, n)), NoErr, TRUE)

\* decodeFixed without the test for empty input
decodeFixedNoFastPath(bytes, old, n) == fixedOf(rlpSplit(bytes), old, n)

\* the *thor.Bytes32 and *thor.Address cases
decodeFixed(bytes, old, n) ==
    IF Len(bytes) = 0 THEN DRet(Bytes(Repeat(0, n)), NoErr, FALSE)
    ELSE fixedOf(rlpSplit(bytes), old, n)

\* the return of rlp.DecodeBytes's result d
scalarOf(d) == DRet(d.v, d.err, TRUE)

\* the cases that assign the zero value to empty input and hand the rest to
\* rlp.DecodeBytes, whose decoder's result is r
decodeScalar(bytes, old, zero, r) ==
    IF Len(bytes) = 0 THEN DRet(zero, NoErr, FALSE)
    ELSE scalarOf(rlpDecodeBytes(r, old))

\* the statement after the type switch of decodeStorage, given the result s
\* of reflect.TypeOf(val).String()
unsupportedOf(s, old, what) ==
    IF s.panic THEN DPanicked(old)
    ELSE DRet(old, what \o s.err, FALSE)

decodeUnsupported(t, old) ==
    unsupportedOf(typeString(t), old, "decode storage value: type ")

decodeStorage(bytes, d) ==
    CASE d.type = "*thor.Bytes32" -> decodeFixed(bytes, d.v, HashLength)
      [] d.type = "*thor.Address" -> decodeFixed(bytes, d.v, AddressLength)
      [] d.type = "*string" -> decodeScalar(bytes, d.v, Bytes(<<>>), rlpDecodeString(bytes))
      [] d.type \in {Ptr(t) : t \in UintTypes} ->
            decodeScalar(bytes, d.v, Bytes(Repeat(0, UintBytes(Elem(d.type)))),
                         rlpDecodeUint(bytes, UintBytes(Elem(d.type))))
      [] d.type = "*bool" -> decodeScalar(bytes, d.v, Bool(FALSE), rlpDecodeBool(bytes))
      [] d.type = "*big.Int" ->
            decodeScalar(bytes, d.v, Big(FALSE, <<>>), rlpDecodeBigInt(bytes))
      [] OTHER -> decodeUnsupported(d.type, d.v)

-----------------------------------------------------------------------------
(* The values and slot contents explored *)

ValBytes == {0, 1, 127, 128, 255}

StrBytes == {0, 120, 128}

RawBytes == {0, 1, 2, 127, 128, 129, 130, 184, 192, 193, 248}

\* magnitudes of numbers: no leading zero byte; 300 and 2^32 are among them
Magnitudes ==
    {m \in SeqsUpTo(ValBytes, MaxNumLen) : m = <<>> \/ m[1] # 0}
        \cup {<<1, 44>>, <<1, 0, 0, 0, 0>>}

BigInts ==
    {Big(n, m) : n \in BOOLEAN, m \in Magnitudes \cup {<<1>> \o Repeat(0, 8)}}
        \ {Big(TRUE, <<>>)}

FixedValues(n) ==
    {Bytes(PadLeft(s, n)) : s \in SeqsUpTo(ValBytes, MaxTailLen)}
        \cup {Bytes(Repeat(255, n)), Bytes(<<1>> \o Repeat(0, n - 1))}

\* the values of a base type
ValuesOf(t) ==
    CASE t = "thor.Bytes32" -> FixedValues(HashLength)
      [] t = "thor.Address" -> FixedValues(AddressLength)
      [] t = "string" ->
            {Bytes(s) : s \in SeqsUpTo(StrBytes, MaxStrLen) \cup {Repeat(97, 55), Repeat(97, 56)}}
      [] t \in UintTypes ->
            {Bytes(PadLeft(m, UintBytes(t))) : m \in {x \in Magnitudes : Len(x) <= UintBytes(t)}}
                \cup {Bytes(Repeat(255, UintBytes(t)))}
      [] t = "bool" -> {Bool(b) : b \in BOOLEAN}
      [] t = "big.Int" -> BigInts
      [] OTHER -> {Bytes(<<>>)}

\* the zero value of a base type
Zero(t) ==
    CASE t = "thor.Bytes32" -> Bytes(Repeat(0, HashLength))
      [] t = "thor.Address" -> Bytes(Repeat(0, AddressLength))
      [] t = "string" -> Bytes(<<>>)
      [] t \in UintTypes -> Bytes(Repeat(0, UintBytes(t)))
      [] t = "bool" -> Bool(FALSE)
      [] t = "big.Int" -> Big(FALSE, <<>>)
      [] OTHER -> Bytes(<<>>)

\* what a destination may hold before a call: its zero value or an old value
Priors(t) ==
    CASE t = "thor.Bytes32" -> {Zero(t), Bytes(Repeat(255, HashLength))}
      [] t = "thor.Address" -> {Zero(t), Bytes(Repeat(255, AddressLength))}
      [] t = "string" -> {Zero(t), Bytes(<<120>>)}
      [] t \in UintTypes -> {Zero(t), Bytes(Repeat(255, UintBytes(t)))}
      [] t = "bool" -> {Bool(b) : b \in BOOLEAN}
      [] t = "big.Int" -> {Zero(t), Big(TRUE, <<1>>)}
      [] OTHER -> {Bytes(<<>>)}

\* what the extension method of a value may return
ExtReturns == {Ret(b, e) : b \in {<<>>, <<1>>, <<130, 1, 44>>}, e \in {NoErr, "custom: refused"}}

NoExt == Ret(<<>>, NoErr)

\* an interface value holding v with dynamic type t
Iface(t, v) == [type |-> t, v |-> v, ext |-> FALSE, extRet |-> NoExt]

\* an interface value whose dynamic type has the extension method, returning r
ExtIface(t, r) == [type |-> t, v |-> Bytes(<<>>), ext |-> TRUE, extRet |-> r]

\* the untyped nil interface value
Nil == Iface(NilType, Bytes(<<>>))

\* slot contents: short strings over RawBytes, and longer ones that hold a
\* long-form header, a 33-byte string and a 32-byte list
RawData ==
    SeqsUpTo(RawBytes, MaxDataLen)
        \cup {<<184, 56>> \o Repeat(97, 56), <<184, 55>> \o Repeat(97, 55),
              <<161>> \o Repeat(1, 33), <<224>> \o Repeat(1, 32),
              <<130, 1, 44>>, <<130, 1, 44, 0>>, <<130, 0, 44>>, <<131, 1, 0, 0>>}

-----------------------------------------------------------------------------
(* The state machine: a caller encodes a value, reads an encoding back, or *)
(* reads a slot whose content it did not write.  The codec keeps no state  *)
(* between calls, so every call starts from the initial state.             *)

NoResult == Ret(<<>>, NoErr)

NoDecode == DRet(Bytes(<<>>), NoErr, FALSE)

Init ==
    /\ pc = "init"
    /\ val = Nil
    /\ enc = NoResult
    /\ data = <<>>
    /\ dst = Nil
    /\ out = Nil
    /\ dec = NoDecode

\* encodeStorage(x)
EncodeCall(x) ==
    /\ pc = "init"
    /\ val' = x
    /\ enc' = encodeStorage(x)
    /\ pc' = "encoded"
    /\ data' = <<>>
    /\ dst' = Nil
    /\ out' = Nil
    /\ dec' = NoDecode

\* decodeStorage(bytes, &d): the destination is written in place
Decoded(bytes, d, r) ==
    /\ data' = bytes
    /\ dst' = d
    /\ out' = [d EXCEPT !.v = r.v]
    /\ dec' = r

DecodeCall(bytes, d) == Decoded(bytes, d, decodeStorage(bytes, d))

\* a value of a built-in type, by value or by pointer
EncodeBuiltin ==
    \E t \in BuiltinTypes : \E v \in ValuesOf(Base(t)) : EncodeCall(Iface(t, v))

\* a value outside the built-in set: another type, or the untyped nil
EncodeForeign ==
    \E t \in ForeignTypes \cup {NilType} : \E v \in ValuesOf(t) : EncodeCall(Iface(t, v))

\* a value whose type has the Encode method
EncodeExtension ==
    \E t \in ExtensionTypes : \E r \in ExtReturns : EncodeCall(ExtIface(t, r))

\* the bytes just encoded are decoded into a destination of the same type
DecodeEncoded ==
    /\ pc = "encoded"
    /\ val.type \in BuiltinTypes
    /\ ~enc.panic
    /\ enc.err = NoErr
    /\ \E p \in Priors(Base(val.type)) :
          DecodeCall(enc.bytes, Iface(Ptr(Base(val.type)), p))
    /\ pc' = "decoded"
    /\ UNCHANGED <<val, enc>>

\* a slot content is decoded into a built-in destination
DecodeBuiltin ==
    /\ pc = "init"
    /\ \E bytes \in RawData : \E t \in PointerTypes : \E p \in Priors(Base(t)) :
          DecodeCall(bytes, Iface(t, p))
    /\ pc' = "read"
    /\ val' = Nil
    /\ enc' = NoResult

\* a slot content is decoded into a destination outside the built-in pointer
\* set: a non-pointer, another type, or the untyped nil
DecodeForeign ==
    /\ pc = "init"
    /\ \E bytes \in RawData : \E t \in ValueTypes \cup ForeignTypes \cup {NilType} :
          \E p \in Priors(t) : DecodeCall(bytes, Iface(t, p))
    /\ pc' = "read"
    /\ val' = Nil
    /\ enc' = NoResult

\* a slot content is decoded into a destination whose type has the Decode method
DecodeExtension ==
    /\ pc = "init"
    /\ \E bytes \in RawData : \E t \in ExtensionTypes : \E r \in ExtReturns :
          DecodeCall(bytes, ExtIface(t, r))
    /\ pc' = "read"
    /\ val' = Nil
    /\ enc' = NoResult

Next ==
    \/ EncodeBuiltin
    \/ EncodeForeign
    \/ EncodeExtension
    \/ DecodeEncoded
    \/ DecodeBuiltin
    \/ DecodeForeign
    \/ DecodeExtension

Spec == Init /\ [][Next]_vars

-----------------------------------------------------------------------------
(* Vocabulary of the properties *)

\* x holds the zero value of its type
IsZero(x) == x.v = Zero(Base(x.type))

\* x is a negative big integer
IsNegative(x) == x.type = "*big.Int" /\ x.v.bit /\ x.v.bytes # <<>>

\* the call returned without error
EncodeOk == ~enc.panic /\ enc.err = NoErr

DecodeOk == ~dec.panic /\ dec.err = NoErr

\* the destination was freshly declared: it held its zero value before the call
FreshDestination == dst.v = Zero(Base(dst.type))

\* b is exactly one envelope entry holding a string: a single byte below
\* 0x80, a short string, or a long string with a minimal length of 56 or more
ValidScalar(b) ==
    /\ Len(b) > 0
    /\ \/ Len(b) = 1 /\ b[1] < 128
       \/ /\ b[1] \in 128..183
          /\ Len(b) = 1 + (b[1] - 128)
          /\ ~(Len(b) = 2 /\ b[2] < 128)
       \/ /\ b[1] \in 184..191
          /\ Len(b) > b[1] - 183
          /\ b[2] # 0
          /\ BytesNat(SubSeq(b, 2, b[1] - 182)) >= 56
          /\ Len(b) = 1 + (b[1] - 183) + BytesNat(SubSeq(b, 2, b[1] - 182))

\* the payload of an envelope entry holding a string
Payload(b) ==
    IF Len(b) = 1 /\ b[1] < 128 THEN b
    ELSE IF b[1] < 184 THEN Drop(b, 1)
    ELSE Drop(b, 1 + (b[1] - 183))

\* the types whose values are numbers, hashes or addresses
MinimalTypes ==
    {t \in BuiltinTypes : Base(t) \in UintTypes \cup {"thor.Bytes32", "thor.Address", "big.Int"}}

NumericTypes == {t \in BuiltinTypes : Base(t) \in UintTypes \cup {"big.Int"}}

\* the number a value of a numeric type denotes, as a magnitude
NumOf(t, v) == TrimLeft(v.bytes)

\* the values of numeric type t that denote the number m
SameNumber(t, m) ==
    {v \in ValuesOf(Base(t)) : NumOf(t, v) = m /\ ~IsNegative(Iface(t, v))}

-----------------------------------------------------------------------------
(* Properties *)

\* C1: every value of a built-in type that encodeStorage encodes is given back
\* by decodeStorage: decoding the encoding into a destination of the same type
\* succeeds and leaves the destination equal to the value, whatever the
\* destination held before the call.
C1_RoundTrip ==
    pc = "decoded" => DecodeOk /\ out.v = val.v

\* the part of C1 the code keeps: every value of every built-in type other
\* than a negative big integer is encoded without error, a negative big
\* integer is refused with an error, and decoding the encoding into a
\* destination holding its zero value succeeds and gives the value back
RoundTripIntoFresh ==
    /\ pc = "encoded" /\ val.type \in BuiltinTypes /\ ~IsNegative(val) => EncodeOk
    /\ pc = "encoded" /\ IsNegative(val) => ~enc.panic /\ enc.err # NoErr
    /\ pc = "decoded" /\ FreshDestination => DecodeOk /\ out.v = val.v

C3_AbsenceEquivalence ==
    pc \in {"read", "decoded"} /\ dst.type \in PointerTypes /\ data = <<>> =>
        /\ DecodeOk
        /\ out.v = Zero(Base(dst.type))
        /\ ~dec.parsed

\* a hash destination holding an old value has been cleared by empty input
C3_Witness ==
    /\ pc = "read"
    /\ data = <<>>
    /\ dst.type = "*thor.Bytes32"
    /\ dst.v = Bytes(Repeat(255, HashLength))
    /\ out.v = Bytes(Repeat(0, HashLength))

\* C4: a value whose type has the Encode method is encoded by that method:
\* encodeStorage returns the method's bytes and error.
C4_EncodeDelegates ==
    pc = "encoded" /\ val.ext =>
        ~enc.panic /\ enc.bytes = val.extRet.bytes /\ enc.err = val.extRet.err

\* C5: a destination whose type has the Decode method is decoded by that
\* method, for every input: decodeStorage returns the method's error.
C5_DecodeDelegates ==
    pc = "read" /\ dst.ext => ~dec.panic /\ dec.err = dst.extRet.err

\* C6: decoding non-empty input that is not exactly one valid scalar envelope
\* entry into any built-in destination returns an error.
C6_MalformedRejected ==
    pc = "read" /\ dst.type \in PointerTypes /\ data # <<>> /\ ~ValidScalar(data) =>
        ~dec.panic /\ dec.err # NoErr

\* the part of C6 the code does keep: the destinations other than hash and address
MalformedRejectedByScalars ==
    /\ pc = "read"
    /\ dst.type \in PointerTypes \ {"*thor.Bytes32", "*thor.Address"}
    /\ data # <<>>
    /\ ~ValidScalar(data)
    => ~dec.panic /\ dec.err # NoErr

\* C7: a value outside the built-in set without the extension method, the
\* untyped nil included, and a destination outside the built-in pointer set,
\* get the unsupported-type error naming the type, and never a panic.
C7_UnsupportedType ==
    /\ pc = "encoded" /\ val.type \notin BuiltinTypes /\ ~val.ext =>
          /\ ~enc.panic
          /\ enc.err # NoErr
          /\ val.type # NilType => enc.err = "encode storage value: type " \o val.type
    /\ pc = "read" /\ dst.type \notin PointerTypes /\ ~dst.ext =>
          /\ ~dec.panic
          /\ dec.err # NoErr
          /\ dst.type # NilType => dec.err = "decode storage value: type " \o dst.type

\* the part of C7 the code does keep: every typed value
UnsupportedTypedValue ==
    /\ pc = "encoded" /\ val.type \in ForeignTypes =>
          ~enc.panic /\ enc.err = "encode storage value: type " \o val.type
    /\ pc = "read" /\ dst.type \in ForeignTypes \cup ValueTypes =>
          ~dec.panic /\ dec.err = "decode storage value: type " \o dst.type

\* C8 as stated: false encodes to the empty byte string and true to the
\* single byte 0x01; decoding into a bool any single byte other than 0x01,
\* the byte 0x80 included, returns an error.
C8_BoolMarkerEveryByte ==
    /\ pc = "encoded" /\ val.type \in {"bool", "*bool"} =>
          enc = Ret(IF val.v.bit THEN <<1>> ELSE <<>>, NoErr)
    /\ pc = "read" /\ dst.type = "*bool" /\ Len(data) = 1 /\ data # <<1>> =>
          ~dec.panic /\ dec.err # NoErr

\* C8 amended: false encodes to the empty byte string and true to the single
\* byte 0x01; decoding into a bool any single byte other than 0x01 and 0x80
\* returns an error, and 0x80 decodes to false without error.
C8_BoolMarker ==
    /\ pc = "encoded" /\ val.type \in {"bool", "*bool"} =>
          enc = Ret(IF val.v.bit THEN <<1>> ELSE <<>>, NoErr)
    /\ pc = "read" /\ dst.type = "*bool" /\ Len(data) = 1 /\ data \notin {<<1>>, <<128>>} =>
          ~dec.panic /\ dec.err # NoErr
    /\ pc = "read" /\ dst.type = "*bool" /\ data = <<128>> =>
          DecodeOk /\ out.v = Bool(FALSE)

\* the byte 0x02 has been refused as a bool
C8_Witness ==
    /\ pc = "read"
    /\ dst.type = "*bool"
    /\ data = <<2>>
    /\ dec.err = "rlp: invalid boolean value"

=============================================================================
